---- MODULE Spec2Model ----
(***************************************************************************)
(* ProviderSolanaInjection (packages/provider-core/src/                    *)
(* provider-solana-new.ts): the notification router, the session fields    *)
(* it mutates, and the asynchronous operation surface (connect,            *)
(* disconnect, the guarded operations) with their await points.            *)
(*                                                                         *)
(* One step of the model is one run-to-completion piece of JavaScript:     *)
(* the delivery of one window "message" event, the synchronous prefix of   *)
(* a method call up to its first pending await, or the continuation of a   *)
(* method after the trusted side has answered.                             *)
(***************************************************************************)
EXTENDS Naturals, Sequences, FiniteSets

\* ------------------------------------------------------------------ bounds
\* Number of distinct wallet accounts / RPC endpoints that payloads and
\* trusted-side answers may carry.
NumAccounts == 1
NumUrls == 2

AccountPool == <<"X", "Y", "Z">>
UrlPool == <<"E1", "E2", "E3">>
Accounts == {AccountPool[i] : i \in 1..NumAccounts}
Urls == {UrlPool[i] : i \in 1..NumUrls}

\* A payload field that is not present (JavaScript undefined).
Absent == "-"

\* ------------------------------------------------- imported constants
CHANNEL_SOLANA_NOTIFICATION == "CHANNEL_SOLANA_NOTIFICATION"
CHANNEL_PLUGIN_NOTIFICATION == "CHANNEL_PLUGIN_NOTIFICATION"
\* Some other channel tag travelling over window.postMessage.
CHANNEL_OTHER == "CHANNEL_SOLANA_RPC_RESPONSE"

NOTIFICATION_SOLANA_CONNECTED == "NOTIFICATION_SOLANA_CONNECTED"
NOTIFICATION_SOLANA_DISCONNECTED == "NOTIFICATION_SOLANA_DISCONNECTED"
NOTIFICATION_CONNECTION_URL_UPDATED == "NOTIFICATION_CONNECTION_URL_UPDATED"
NOTIFICATION_ACTIVE_WALLET_UPDATED == "NOTIFICATION_ACTIVE_WALLET_UPDATED"
PLUGIN_NOTIFICATION_CONNECT == "PLUGIN_NOTIFICATION_CONNECT"
PLUGIN_NOTIFICATION_MOUNT == "PLUGIN_NOTIFICATION_MOUNT"
PLUGIN_NOTIFICATION_UPDATE_METADATA == "PLUGIN_NOTIFICATION_UPDATE_METADATA"
PLUGIN_NOTIFICATION_UNMOUNT == "PLUGIN_NOTIFICATION_UNMOUNT"
PLUGIN_NOTIFICATION_CONNECTION_URL_UPDATED == "PLUGIN_NOTIFICATION_CONNECTION_URL_UPDATED"
PLUGIN_NOTIFICATION_SOLANA_PUBLIC_KEY_UPDATED == "PLUGIN_NOTIFICATION_SOLANA_PUBLIC_KEY_UPDATED"
\* An event name of a newer protocol version, unknown to this router.
NOTIFICATION_UNKNOWN == "NOTIFICATION_FEATURE_GATES_UPDATED"

\* Blockchain.SOLANA and one other member of the Blockchain enum.
SOLANA == "solana"
ETHEREUM == "ethereum"
Blockchains == {SOLANA, ETHEREUM}

\* process.env.DEFAULT_SOLANA_CONNECTION_URL || DEFAULT_SOLANA_CLUSTER
DEFAULT_SOLANA_CLUSTER == "DEFAULT"
\* The URL of a Connection a caller passes as the optional `connection` argument.
CustomUrl == "CUSTOM"

\* -------------------------------------------------------------- values
\* this.#publicKey holds undefined, a PublicKey object (built by
\* `new PublicKey(str)`) or whatever value a plugin notification carried.
NoKey == [kind |-> "undefined", key |-> Absent]
PublicKey(str) == [kind |-> "PublicKey", key |-> str]
RawKey(v) == IF v = Absent THEN NoKey ELSE [kind |-> "string", key |-> v]
\* JavaScript truthiness of a #publicKey value: `!this.#publicKey` is ~Truthy.
Truthy(pk) == pk.kind # "undefined"

NoConnection == [class |-> "undefined", url |-> Absent]
Connection(url) == [class |-> "Connection", url |-> url]
BackgroundSolanaConnection(url) == [class |-> "BackgroundSolanaConnection", url |-> url]
\* new SolanaClient(this.#secureClientSender, connection)
SolanaClient(conn) == [connection |-> conn]
NoClient == [connection |-> NoConnection]
DefaultConnection == Connection(DEFAULT_SOLANA_CLUSTER)

\* `a ?? b`
Coalesce(a, b, undef) == IF a = undef THEN b ELSE a

\* ------------------------------------------------------------ the state
VARIABLES
  isConnected,          \* #isConnected
  isXnft,               \* #isXnft (never initialised: undefined, read as false)
  publicKey,            \* #publicKey
  connection,           \* #connection
  secureSolanaClient,   \* #secureSolanaClient
  secureClientOrigin,   \* #secureClientOrigin.context
  calls,                \* the method calls in progress, one per caller
  notification,         \* the message event the last step delivered, or NoEvent
  emitted,              \* the public events the last step emitted, in order
  raised,               \* the error the last delivery threw, or "none"
  terminalEvent,        \* history: see TerminalAfter
  invoked               \* the caller whose method the last step called: {c}, or NoCaller

fields == <<isConnected, isXnft, publicKey, connection, secureSolanaClient,
            secureClientOrigin>>
vars == <<isConnected, isXnft, publicKey, connection, secureSolanaClient,
          secureClientOrigin, calls, notification, emitted, raised, terminalEvent,
          invoked>>

\* The private fields of the provider as one record.
Session ==
  [isConnected |-> isConnected, isXnft |-> isXnft, publicKey |-> publicKey,
   connection |-> connection, secureSolanaClient |-> secureSolanaClient,
   secureClientOrigin |-> secureClientOrigin]

\* What the public getters (isConnected, isXnft, publicKey, connection)
\* return to a subscriber that reads the provider.
Getters(s) ==
  [isConnected |-> s.isConnected, isXnft |-> s.isXnft,
   publicKey |-> s.publicKey, connection |-> s.connection]

\* Mutation: the event carries event.data.detail.data, without the name.
EmitDataOnly(s, name, detail) ==
  [name |-> name, detail |-> [detail EXCEPT !.name = Absent], seen |-> Getters(s)]

\* this.emit(name, event.data.detail): the subscribers run synchronously and
\* see the fields as they are at that point of the handler.
Emit(s, name, detail) == [name |-> name, detail |-> detail, seen |-> Getters(s)]

\* The outcome of a handler: the fields, the events emitted, the error thrown.
Handled(s, events) == [s |-> s, emitted |-> events, raised |-> "none"]

\* ------------------------------------------------------ message events
\* event.data.detail = {name, data}; data's fields are blockchain, url and
\* the account (publicKey / activeWallet / publicKeys[solana]).
Detail(name, blockchain, url, key) ==
  [name |-> name, blockchain |-> blockchain, url |-> url, key |-> key]
\* valid: isValidEventOrigin(event); type: event.data.type
Event(valid, type, detail) == [valid |-> valid, type |-> type, detail |-> detail]
NoEvent == Event(FALSE, "none", Detail("none", Absent, Absent, Absent))
\* Mutation: the channel check is missing.
AcceptedAnyChannel(event) == event.valid

\* The two checks at the head of the router: lines 134-139.
Accepted(event) ==
  /\ event.valid
  /\ event.type \in {CHANNEL_SOLANA_NOTIFICATION, CHANNEL_PLUGIN_NOTIFICATION}

\* ---------------------------------------------------------- handlers
\* #connect(publicKey, connectionUrl)
Connect(s, key, connectionUrl) ==
  [s EXCEPT !.isConnected = TRUE,
            !.publicKey = PublicKey(key),
            !.connection = BackgroundSolanaConnection(connectionUrl),
            !.secureSolanaClient = SolanaClient(BackgroundSolanaConnection(connectionUrl))]

\* Mutation: the public event goes out before the fields are written.
HandlePluginConnectEmitsFirst(s, event) ==
  LET s1 == [s EXCEPT !.secureClientOrigin = "xnft", !.isXnft = TRUE]
      s2 == Connect(s1, event.detail.key, event.detail.url)
  IN Handled(s2, <<Emit(s1, "connect", event.detail)>>)

HandlePluginConnect(s, event) ==
  LET s1 == [s EXCEPT !.secureClientOrigin = "xnft", !.isXnft = TRUE]
      s2 == Connect(s1, event.detail.key, event.detail.url)
  IN Handled(s2, <<Emit(s2, "connect", event.detail)>>)

HandlePluginMount(s, event) == Handled(s, <<Emit(s, "mount", event.detail)>>)

HandlePluginUpdateMetadata(s, event) == Handled(s, <<Emit(s, "metadata", event.detail)>>)

HandlePluginUnmount(s, event) == Handled(s, <<Emit(s, "unmount", event.detail)>>)

\* Mutation: the blockchain filter is missing.
HandlePluginConnectionUrlUpdatedAnyChain(s, event) ==
  LET s1 == [s EXCEPT !.connection = BackgroundSolanaConnection(event.detail.url)]
      s2 == [s1 EXCEPT !.secureSolanaClient = SolanaClient(s1.connection)]
  IN Handled(s2, <<Emit(s2, "connectionDidChange", event.detail)>>)

HandlePluginConnectionUrlUpdated(s, event) ==
  IF event.detail.blockchain # SOLANA
  THEN Handled(s, <<>>)
  ELSE LET s1 == [s EXCEPT !.connection = BackgroundSolanaConnection(event.detail.url)]
           s2 == [s1 EXCEPT !.secureSolanaClient = SolanaClient(s1.connection)]
       IN Handled(s2, <<Emit(s2, "connectionDidChange", event.detail)>>)

HandlePluginPublicKeyUpdated(s, event) ==
  LET s1 == [s EXCEPT !.publicKey = RawKey(event.detail.key)]
  IN Handled(s1, <<Emit(s1, "publicKeyUpdate", event.detail)>>)

HandleNotificationConnected(s, event) ==
  Handled(s, <<Emit(s, "connect", event.detail)>>)

\* Mutation: the public event goes out before the fields are written.
HandleNotificationDisconnectedEmitsFirst(s, event) ==
  LET s1 == [s EXCEPT !.isConnected = FALSE, !.connection = DefaultConnection]
      s2 == [s1 EXCEPT !.secureSolanaClient = SolanaClient(s1.connection)]
  IN Handled(s2, <<Emit(s, "disconnect", event.detail)>>)

\* Mutation: the handler resets the context kind with the rest of the session.
HandleNotificationDisconnectedResetsXnft(s, event) ==
  LET s1 == [s EXCEPT !.isConnected = FALSE, !.isXnft = FALSE,
                      !.connection = DefaultConnection]
      s2 == [s1 EXCEPT !.secureSolanaClient = SolanaClient(s1.connection)]
  IN Handled(s2, <<Emit(s2, "disconnect", event.detail)>>)

HandleNotificationDisconnected(s, event) ==
  LET s1 == [s EXCEPT !.isConnected = FALSE, !.connection = DefaultConnection]
      s2 == [s1 EXCEPT !.secureSolanaClient = SolanaClient(s1.connection)]
  IN Handled(s2, <<Emit(s2, "disconnect", event.detail)>>)

HandleNotificationConnectionUrlUpdated(s, event) ==
  IF event.detail.blockchain # SOLANA
  THEN Handled(s, <<>>)
  ELSE LET s1 == [s EXCEPT !.secureSolanaClient =
                               SolanaClient(Connection(event.detail.url))]
       IN Handled(s1, <<Emit(s1, "connectionDidChange", event.detail)>>)

HandleNotificationActiveWalletUpdated(s, event) ==
  IF event.detail.blockchain # SOLANA
  THEN Handled(s, <<>>)
  ELSE LET s1 == [s EXCEPT !.publicKey = PublicKey(event.detail.key)]
       IN Handled(s1, <<Emit(s1, "activeWalletDidChange", event.detail)>>)

\* #handleNotification(event): the router.
HandleNotification(s, event) ==
  IF ~Accepted(event) THEN Handled(s, <<>>)
  ELSE CASE event.detail.name = NOTIFICATION_SOLANA_CONNECTED ->
              HandleNotificationConnected(s, event)
         [] event.detail.name = NOTIFICATION_SOLANA_DISCONNECTED ->
              HandleNotificationDisconnected(s, event)
         [] event.detail.name = NOTIFICATION_CONNECTION_URL_UPDATED ->
              HandleNotificationConnectionUrlUpdated(s, event)
         [] event.detail.name = NOTIFICATION_ACTIVE_WALLET_UPDATED ->
              HandleNotificationActiveWalletUpdated(s, event)
         [] event.detail.name = PLUGIN_NOTIFICATION_CONNECT ->
              HandlePluginConnect(s, event)
         [] event.detail.name = PLUGIN_NOTIFICATION_MOUNT ->
              HandlePluginMount(s, event)
         [] event.detail.name = PLUGIN_NOTIFICATION_UPDATE_METADATA ->
              HandlePluginUpdateMetadata(s, event)
         [] event.detail.name = PLUGIN_NOTIFICATION_UNMOUNT ->
              HandlePluginUnmount(s, event)
         [] event.detail.name = PLUGIN_NOTIFICATION_CONNECTION_URL_UPDATED ->
              HandlePluginConnectionUrlUpdated(s, event)
         [] event.detail.name = PLUGIN_NOTIFICATION_SOLANA_PUBLIC_KEY_UPDATED ->
              HandlePluginPublicKeyUpdated(s, event)
         [] OTHER ->
              [s |-> s, emitted |-> <<>>, raised |-> "unexpected notification"]

\* ------------------------------------------------------- method calls
\* A call of a public method by a caller. pc is where the call stands:
\*   "idle"        no call made yet by this caller
\*   "connect"     suspended in connect() at `await this.#secureSolanaClient.connect()`
\*   "disconnect"  suspended at `await this.#secureSolanaClient.disconnect()`
\*   "guard"       a guarded operation suspended at `await this.connect()` whose
\*                 connect() has returned: its continuation is a queued job
\*   "request"     suspended at the await of the operation's own request
\*   "returned"    the call's promise resolved
\*   "threw"       the call's promise rejected with `error`
\* sent: the requests this call has sent to the trusted side, in order;
\* warned: its console.warn lines; publicKey / client / connection: what the
\* operation's request was issued with; connectedAtCall: #isConnected as it was
\* when the method was called.
IdleCall ==
  [method |-> "none", pc |-> "idle", keyArg |-> NoKey, connArg |-> NoConnection,
   sent |-> <<>>, warned |-> <<>>, error |-> "none",
   publicKey |-> NoKey, client |-> NoClient, connection |-> NoConnection,
   connectedAtCall |-> FALSE]

NewCall(s, method, keyArg, connArg) ==
  [IdleCall EXCEPT !.method = method, !.keyArg = keyArg, !.connArg = connArg,
                   !.connectedAtCall = s.isConnected]

\* A settled call keeps its outcome; its arguments and bindings are gone.
Settle(call) ==
  IF call.pc \in {"returned", "threw"}
  THEN [call EXCEPT !.keyArg = NoKey, !.connArg = NoConnection, !.publicKey = NoKey,
                    !.client = NoClient, !.connection = NoConnection]
  ELSE call

\* The operations behind the lazy-connect guard that go to #secureSolanaClient.
ClientOps == {"send", "sendAndConfirm", "signTransaction", "signAllTransactions",
              "signMessage"}
Guarded == ClientOps \cup {"simulate"}

\* Mutation: the already-connected check is missing.
ConnectBeginAlways(s, c) ==
  [c EXCEPT !.warned = IF s.isXnft THEN Append(@, "xnft already connected") ELSE @,
            !.sent = Append(@, "connect"),
            !.pc = "connect"]

\* connect(), up to its await: lines 274-282.
ConnectBegin(s, c) ==
  IF s.isConnected
  THEN [c EXCEPT !.warned = Append(@, "provider already connected"),
                 !.pc = "returned"]
  ELSE [c EXCEPT !.warned = IF s.isXnft THEN Append(@, "xnft already connected") ELSE @,
                 !.sent = Append(@, "connect"),
                 !.pc = "connect"]

\* Mutation: the xnft check is missing.
DisconnectBeginAlways(s, c) ==
  [c EXCEPT !.sent = Append(@, "disconnect"), !.pc = "disconnect"]

\* disconnect(), up to its await: lines 288-292.
DisconnectBegin(s, c) ==
  IF s.isXnft
  THEN [c EXCEPT !.warned = Append(@, "xnft can't be disconnected"),
                 !.pc = "returned"]
  ELSE [c EXCEPT !.sent = Append(@, "disconnect"), !.pc = "disconnect"]

\* Mutation: the account is left in place, as the notification handler does.
DisconnectEndKeepsKey(s) ==
  LET s1 == [s EXCEPT !.connection = DefaultConnection]
  IN [s1 EXCEPT !.secureSolanaClient = SolanaClient(s1.connection),
                !.isConnected = FALSE]

\* Mutation: the account is cleared but the flag is left set.
DisconnectEndKeepsConnected(s) ==
  LET s1 == [s EXCEPT !.connection = DefaultConnection]
  IN [s1 EXCEPT !.secureSolanaClient = SolanaClient(s1.connection),
                !.publicKey = NoKey]

\* disconnect(), after its await: lines 293-299.
DisconnectEnd(s) ==
  LET s1 == [s EXCEPT !.connection = DefaultConnection]
  IN [s1 EXCEPT !.secureSolanaClient = SolanaClient(s1.connection),
                !.isConnected = FALSE,
                !.publicKey = NoKey]

\* A guarded operation from its second `if (!this.#publicKey)` on: the throw,
\* or the request with `publicKey ?? this.#publicKey`. The client operations go
\* to the current #secureSolanaClient with the caller's connection as
\* customConnection; simulate goes to cmn.simulate with
\* `connection ?? this.#connection`.
Dispatch(s, c) ==
  IF ~Truthy(s.publicKey)
  THEN [c EXCEPT !.pc = "threw", !.error = "wallet not connected"]
  ELSE [c EXCEPT !.pc = "request",
                 !.sent = Append(@, c.method),
                 !.publicKey = Coalesce(c.keyArg, s.publicKey, NoKey),
                 !.client = IF c.method = "simulate" THEN NoClient
                            ELSE s.secureSolanaClient,
                 !.connection = IF c.method = "simulate"
                                THEN Coalesce(c.connArg, s.connection, NoConnection)
                                ELSE c.connArg]

\* A guarded operation up to its first await: with an account it goes straight
\* to Dispatch; without one it calls connect() and awaits it, so it is
\* suspended whether connect() waits for the trusted side ("connect") or has
\* returned at once with its warning ("guard").
GuardedBegin(s, c) ==
  IF ~Truthy(s.publicKey)
  THEN LET c1 == ConnectBegin(s, c)
       IN IF c1.pc = "connect" THEN c1 ELSE [c1 EXCEPT !.pc = "guard"]
  ELSE Dispatch(s, c)

\* openXnft(xnftAddress): lines 302-310.
OpenXnftBegin(s, c) ==
  IF s.isXnft
  THEN [c EXCEPT !.pc = "threw",
                 !.error = "xnft context: use window.xnft.openPlugin instead"]
  ELSE [c EXCEPT !.pc = "request", !.sent = Append(@, "openXnft")]

\* sendAll(...): line 366.
SendAllBegin(s, c) == [c EXCEPT !.pc = "threw", !.error = "sendAll not implemented"]

\* prepareSolanaOffchainMessage(...): lines 443-447, no guard.
PrepareBegin(s, c) ==
  [c EXCEPT !.pc = "request",
            !.sent = Append(@, "prepareSolanaOffchainMessage"),
            !.client = s.secureSolanaClient]

\* ----------------------------------------------------------- the steps
Callers == {1}

\* The step assigns the private fields from a session record.
Assign(s) ==
  /\ isConnected' = s.isConnected
  /\ isXnft' = s.isXnft
  /\ publicKey' = s.publicKey
  /\ connection' = s.connection
  /\ secureSolanaClient' = s.secureSolanaClient
  /\ secureClientOrigin' = s.secureClientOrigin

NoCaller == {}

\* A step in which caller c calls a method: no message was delivered, nothing
\* was emitted.
CallStep(c, call) ==
  /\ calls' = [calls EXCEPT ![c] = Settle(call)]
  /\ notification' = NoEvent
  /\ emitted' = <<>>
  /\ raised' = "none"
  /\ terminalEvent' = "void"
  /\ invoked' = {c}

\* A step in which the call of caller c resumes after an await.
ResumeStep(c, call) ==
  /\ calls' = [calls EXCEPT ![c] = Settle(call)]
  /\ notification' = NoEvent
  /\ emitted' = <<>>
  /\ raised' = "none"
  /\ terminalEvent' = "void"
  /\ invoked' = NoCaller

CanCall(c) == calls[c].pc \in {"idle", "returned", "threw"}

\* The most recent terminal session event (connected / disconnected) the
\* router has dispatched to its handler, in a run made of notifications only:
\* "none" before the first one, "void" from the first method call on.
TerminalAfter(prev, event) ==
  IF prev = "void" \/ ~Accepted(event) THEN prev
  ELSE IF event.detail.name = NOTIFICATION_SOLANA_CONNECTED THEN "connected"
  ELSE IF event.detail.name = NOTIFICATION_SOLANA_DISCONNECTED THEN "disconnected"
  ELSE prev

\* The notifications and other window messages that may arrive.
NoData(name) == Detail(name, Absent, Absent, Absent)
SolanaDetails ==
  {NoData(NOTIFICATION_SOLANA_CONNECTED), NoData(NOTIFICATION_SOLANA_DISCONNECTED)}
  \cup {Detail(NOTIFICATION_CONNECTION_URL_UPDATED, b, u, Absent) :
          b \in Blockchains, u \in Urls}
  \cup {Detail(NOTIFICATION_ACTIVE_WALLET_UPDATED, b, Absent, k) :
          b \in Blockchains, k \in Accounts}
PluginDetails ==
  {NoData(PLUGIN_NOTIFICATION_MOUNT), NoData(PLUGIN_NOTIFICATION_UPDATE_METADATA),
   NoData(PLUGIN_NOTIFICATION_UNMOUNT)}
  \cup {Detail(PLUGIN_NOTIFICATION_CONNECT, SOLANA, u, k) : u \in Urls, k \in Accounts}
  \cup {Detail(PLUGIN_NOTIFICATION_CONNECTION_URL_UPDATED, b, u, Absent) :
          b \in Blockchains, u \in Urls}
  \cup {Detail(PLUGIN_NOTIFICATION_SOLANA_PUBLIC_KEY_UPDATED, SOLANA, Absent, k) :
          k \in Accounts \cup {Absent}}
\* Messages the router must not act on: a foreign origin, another channel.
ForeignDetails ==
  {NoData(NOTIFICATION_SOLANA_DISCONNECTED), NoData(NOTIFICATION_UNKNOWN),
   Detail(PLUGIN_NOTIFICATION_CONNECT, SOLANA, UrlPool[1], AccountPool[1])}
Events ==
  {Event(TRUE, CHANNEL_SOLANA_NOTIFICATION, d) : d \in SolanaDetails}
  \cup {Event(TRUE, CHANNEL_PLUGIN_NOTIFICATION, d) : d \in PluginDetails}
  \cup {Event(TRUE, t, NoData(NOTIFICATION_UNKNOWN)) :
          t \in {CHANNEL_SOLANA_NOTIFICATION, CHANNEL_PLUGIN_NOTIFICATION}}
  \cup {Event(FALSE, CHANNEL_SOLANA_NOTIFICATION, d) : d \in ForeignDetails}
  \cup {Event(TRUE, CHANNEL_OTHER, d) : d \in ForeignDetails}

Init ==
  /\ isConnected = FALSE
  /\ isXnft = FALSE
  /\ publicKey = NoKey
  /\ connection = DefaultConnection
  /\ secureSolanaClient = SolanaClient(DefaultConnection)
  /\ secureClientOrigin = "browser"
  /\ calls = [c \in Callers |-> IdleCall]
  /\ notification = NoEvent
  /\ emitted = <<>>
  /\ raised = "none"
  /\ terminalEvent = "none"
  /\ invoked = NoCaller

\* No continuation of a call is queued as a job.
JobsDone == \A c \in DOMAIN calls : calls[c].pc # "guard"

\* Mutation: a request in flight follows the session's client and account.
DeliverRebinds(event) ==
  LET h == HandleNotification(Session, event)
  IN /\ JobsDone
     /\ Assign(h.s)
     /\ notification' = event
     /\ emitted' = h.emitted
     /\ raised' = h.raised
     /\ terminalEvent' = TerminalAfter(terminalEvent, event)
     /\ invoked' = NoCaller
     /\ calls' = [c \in DOMAIN calls |->
                    IF calls[c].pc = "request" /\ calls[c].method \in ClientOps
                    THEN [calls[c] EXCEPT !.client = h.s.secureSolanaClient,
                                          !.publicKey = h.s.publicKey]
                    ELSE calls[c]]

\* window "message" listener: #handleNotification runs to completion. A
\* message event is a task of its own: the queued jobs have run before it.
Deliver(event) ==
  LET h == HandleNotification(Session, event)
  IN /\ JobsDone
     /\ Assign(h.s)
     /\ notification' = event
     /\ emitted' = h.emitted
     /\ raised' = h.raised
     /\ terminalEvent' = TerminalAfter(terminalEvent, event)
     /\ invoked' = NoCaller
     /\ UNCHANGED calls

CallConnect(c) ==
  /\ CanCall(c)
  /\ CallStep(c, ConnectBegin(Session, NewCall(Session, "connect", NoKey, NoConnection)))
  /\ UNCHANGED fields

CallDisconnect(c) ==
  /\ CanCall(c)
  /\ CallStep(c, DisconnectBegin(Session, NewCall(Session, "disconnect", NoKey, NoConnection)))
  /\ UNCHANGED fields

CallGuarded(c, method, keyArg, connArg) ==
  /\ CanCall(c)
  /\ CallStep(c, GuardedBegin(Session, NewCall(Session, method, keyArg, connArg)))
  /\ UNCHANGED fields

CallOpenXnft(c) ==
  /\ CanCall(c)
  /\ CallStep(c, OpenXnftBegin(Session, NewCall(Session, "openXnft", NoKey, NoConnection)))
  /\ UNCHANGED fields

CallSendAll(c) ==
  /\ CanCall(c)
  /\ CallStep(c, SendAllBegin(Session, NewCall(Session, "sendAll", NoKey, NoConnection)))
  /\ UNCHANGED fields

CallPrepare(c) ==
  /\ CanCall(c)
  /\ CallStep(c, PrepareBegin(Session,
                    NewCall(Session, "prepareSolanaOffchainMessage", NoKey, NoConnection)))
  /\ UNCHANGED fields

\* The trusted side answers connect with {publicKey, connectionUrl}: connect()
\* resumes at line 284 and writes the fields. A guarded operation that awaits
\* this connect() resumes in a later job.
ConnectResolved(c, key, url) ==
  /\ calls[c].pc = "connect"
  /\ Assign(Connect(Session, key, url))
  /\ ResumeStep(c, [calls[c] EXCEPT !.pc = IF calls[c].method = "connect"
                                           THEN "returned" ELSE "guard"])

\* A guarded operation resumes after `await this.connect()`: its second check
\* reads #publicKey as it is now.
GuardResumed(c) ==
  /\ calls[c].pc = "guard"
  /\ ResumeStep(c, Dispatch(Session, calls[c]))
  /\ UNCHANGED fields

\* Mutation: a failed request is sent again (up to three requests in all)
\* before the failure reaches the caller.
RejectedResends(c, at) ==
  /\ calls[c].pc = at
  /\ ResumeStep(c, IF Len(calls[c].sent) < 3
                 THEN [calls[c] EXCEPT !.sent = Append(@, @[Len(@)])]
                 ELSE [calls[c] EXCEPT !.pc = "threw", !.error = "transport failure"])
  /\ UNCHANGED fields

\* The trusted side fails a request: the failure propagates to the caller.
Rejected(c, at) ==
  /\ calls[c].pc = at
  /\ ResumeStep(c, [calls[c] EXCEPT !.pc = "threw", !.error = "transport failure"])
  /\ UNCHANGED fields

ConnectRejected(c) == Rejected(c, "connect")

DisconnectResolved(c) ==
  /\ calls[c].pc = "disconnect"
  /\ Assign(DisconnectEnd(Session))
  /\ ResumeStep(c, [calls[c] EXCEPT !.pc = "returned"])

DisconnectRejected(c) == Rejected(c, "disconnect")

RequestResolved(c) ==
  /\ calls[c].pc = "request"
  /\ ResumeStep(c, [calls[c] EXCEPT !.pc = "returned"])
  /\ UNCHANGED fields

RequestRejected(c) == Rejected(c, "request")

\* The arguments a caller may pass: an explicit publicKey, and an explicit
\* connection to every guarded operation but signMessage.
KeyArgs == {NoKey, PublicKey(AccountPool[1])}
ConnArgs(method) ==
  IF method = "signMessage" THEN {NoConnection} ELSE {NoConnection, Connection(CustomUrl)}

\* The accepted notifications whose handlers write the private fields.
SessionEvents ==
  {e \in Events :
     /\ Accepted(e)
     /\ e.detail.name \in
          {NOTIFICATION_SOLANA_CONNECTED, NOTIFICATION_SOLANA_DISCONNECTED,
           NOTIFICATION_CONNECTION_URL_UPDATED, NOTIFICATION_ACTIVE_WALLET_UPDATED,
           PLUGIN_NOTIFICATION_CONNECT, PLUGIN_NOTIFICATION_CONNECTION_URL_UPDATED,
           PLUGIN_NOTIFICATION_SOLANA_PUBLIC_KEY_UPDATED}
     /\ e.detail.blockchain \in {SOLANA, Absent}}

\* connect() and disconnect() with the trusted side's answers.
SessionCalls ==
  \/ \E c \in Callers : CallConnect(c)
  \/ \E c \in Callers : CallDisconnect(c)
  \/ \E c \in Callers, k \in Accounts, u \in Urls : ConnectResolved(c, k, u)
  \/ \E c \in Callers : ConnectRejected(c)
  \/ \E c \in Callers : DisconnectResolved(c)
  \/ \E c \in Callers : DisconnectRejected(c)

\* The operations and the trusted side's answers to them.
OperationCalls ==
  \/ \E c \in Callers, m \in Guarded, k \in KeyArgs :
       \E n \in ConnArgs(m) : CallGuarded(c, m, k, n)
  \/ \E c \in Callers : CallOpenXnft(c)
  \/ \E c \in Callers : CallSendAll(c)
  \/ \E c \in Callers : CallPrepare(c)
  \/ \E c \in Callers : GuardResumed(c)
  \/ \E c \in Callers : RequestResolved(c)
  \/ \E c \in Callers : RequestRejected(c)

\* The provider under its whole method surface and the notifications that
\* write its fields.
Next ==
  \/ \E event \in SessionEvents : Deliver(event)
  \/ SessionCalls
  \/ OperationCalls

Spec == Init /\ [][Next]_vars

\* The router under every message that may arrive, with connect() and
\* disconnect() as the only calls.
NextRouter ==
  \/ \E event \in Events : Deliver(event)
  \/ SessionCalls

SpecRouter == Init /\ [][NextRouter]_vars

\* The trusted side answers a pending request, with a result or a failure.
Answered ==
  \/ \E c \in Callers, k \in Accounts, u \in Urls : ConnectResolved(c, k, u)
  \/ \E c \in Callers : ConnectRejected(c)
  \/ \E c \in Callers : DisconnectResolved(c)
  \/ \E c \in Callers : DisconnectRejected(c)
  \/ \E c \in Callers : RequestResolved(c)
  \/ \E c \in Callers : RequestRejected(c)

\* The provider with a trusted side that answers every request it is sent and
\* a job queue that runs every queued continuation.
SpecFair ==
  Init /\ [][Next]_vars /\ WF_vars(Answered) /\ WF_vars(\E c \in Callers : GuardResumed(c))

\* Two callers whose calls interleave at their await points. The data is
\* fixed: the trusted side answers the connect request of caller 1 with account
\* X on E1 and that of caller 2 with account Z on E3, and the notifications
\* that arrive meanwhile carry the account Y and the endpoint E2.
RaceCallers == {1, 2}
RaceMethods == {"send", "simulate"}
RaceAnswer(c) ==
  IF c = 1 THEN [key |-> AccountPool[1], url |-> UrlPool[1]]
           ELSE [key |-> AccountPool[3], url |-> UrlPool[3]]
RaceEvents ==
  {Event(TRUE, CHANNEL_SOLANA_NOTIFICATION, NoData(NOTIFICATION_SOLANA_DISCONNECTED)),
   Event(TRUE, CHANNEL_SOLANA_NOTIFICATION,
         Detail(NOTIFICATION_CONNECTION_URL_UPDATED, SOLANA, UrlPool[2], Absent)),
   Event(TRUE, CHANNEL_SOLANA_NOTIFICATION,
         Detail(NOTIFICATION_ACTIVE_WALLET_UPDATED, SOLANA, Absent, AccountPool[2])),
   Event(TRUE, CHANNEL_PLUGIN_NOTIFICATION,
         Detail(PLUGIN_NOTIFICATION_CONNECT, SOLANA, UrlPool[2], AccountPool[2])),
   Event(TRUE, CHANNEL_PLUGIN_NOTIFICATION,
         Detail(PLUGIN_NOTIFICATION_SOLANA_PUBLIC_KEY_UPDATED, SOLANA, Absent,
                AccountPool[2]))}
\* The plugin's public-key update whose payload has no publicKey.
KeylessUpdate ==
  Event(TRUE, CHANNEL_PLUGIN_NOTIFICATION,
        Detail(PLUGIN_NOTIFICATION_SOLANA_PUBLIC_KEY_UPDATED, SOLANA, Absent, Absent))

InitRace ==
  /\ isConnected = FALSE
  /\ isXnft = FALSE
  /\ publicKey = NoKey
  /\ connection = DefaultConnection
  /\ secureSolanaClient = SolanaClient(DefaultConnection)
  /\ secureClientOrigin = "browser"
  /\ calls = [c \in RaceCallers |-> IdleCall]
  /\ notification = NoEvent
  /\ emitted = <<>>
  /\ raised = "none"
  /\ terminalEvent = "none"
  /\ invoked = NoCaller

RaceCalls ==
  \/ \E c \in RaceCallers : CallConnect(c)
  \/ \E c \in RaceCallers : CallDisconnect(c)
  \/ \E c \in RaceCallers, m \in RaceMethods : CallGuarded(c, m, NoKey, NoConnection)
  \/ \E c \in RaceCallers : ConnectResolved(c, RaceAnswer(c).key, RaceAnswer(c).url)
  \/ \E c \in RaceCallers : GuardResumed(c)
  \/ \E c \in RaceCallers : ConnectRejected(c)
  \/ \E c \in RaceCallers : DisconnectResolved(c)
  \/ \E c \in RaceCallers : DisconnectRejected(c)
  \/ \E c \in RaceCallers : RequestResolved(c)
  \/ \E c \in RaceCallers : RequestRejected(c)

NextRace ==
  \/ \E event \in RaceEvents \cup {KeylessUpdate} : Deliver(event)
  \/ RaceCalls

SpecRace == InitRace /\ [][NextRace]_vars

\* The same two callers when every account notification carries an account.
NextRaceKeyed ==
  \/ \E event \in RaceEvents : Deliver(event)
  \/ RaceCalls

SpecRaceKeyed == InitRace /\ [][NextRaceKeyed]_vars

\* ============================================================== claims
\* The step is a method call made by caller c.
Started(c) == CanCall(c) /\ c \in invoked'

\* How many connect requests a call has sent to the trusted side.
ConnectsSent(call) == Cardinality({i \in DOMAIN call.sent : call.sent[i] = "connect"})

\* The endpoint an operation's request runs against: the connection handed to
\* cmn.simulate, or the connection its SolanaClient was constructed with.
OpEndpoint(call) ==
  IF call.method = "simulate" THEN call.connection.url ELSE call.client.connection.url

UrlUpdatedNames ==
  {NOTIFICATION_CONNECTION_URL_UPDATED, PLUGIN_NOTIFICATION_CONNECTION_URL_UPDATED}

\* C1 (as claimed): in a run of notifications only, isConnected is true when
\* the most recent terminal session event was "connected" and false when it
\* was "disconnected". The code's handler of "connected" only emits.
C1_FlagFollowsTerminalEvent ==
  /\ terminalEvent = "connected" => isConnected
  /\ terminalEvent = "disconnected" => ~isConnected

\* C2 (as claimed): a guarded operation called while isConnected is false
\* sends at most one connect request, and has sent exactly one by the time it
\* issues its own request, returns, or fails with "wallet not connected".
C2_DisconnectedCallConnectsOnce ==
  \A c \in Callers :
    (calls[c].method \in Guarded /\ ~calls[c].connectedAtCall) =>
      /\ ConnectsSent(calls[c]) <= 1
      /\ (\/ calls[c].pc \in {"request", "returned"}
          \/ (calls[c].pc = "threw" /\ calls[c].error = "wallet not connected"))
         => ConnectsSent(calls[c]) = 1

\* C3: once isXnft is true it is true in every later state.
C3_XnftIsPermanent == [][isXnft => isXnft']_vars

\* C3 witness: an embedded session that a later "disconnected" notification
\* has disconnected is still embedded.
C3_Witness ==
  /\ isXnft /\ ~isConnected
  /\ Accepted(notification)
  /\ notification.detail.name = NOTIFICATION_SOLANA_DISCONNECTED

\* C4 (as claimed): the guarded operation called right after an accepted
\* endpoint-updated notification for solana (either variant) with URL u, and
\* dispatched by that call, runs against u (for simulate: when no connection
\* argument is passed).
C4_NextOperationUsesNewEndpoint ==
  [][\A c \in Callers :
       (/\ Accepted(notification)
        /\ notification.detail.name \in UrlUpdatedNames
        /\ notification.detail.blockchain = SOLANA
        /\ Started(c)
        /\ calls'[c].method \in Guarded
        /\ calls'[c].pc = "request"
        /\ calls'[c].connArg = NoConnection)
       => OpEndpoint(calls'[c]) = notification.detail.url]_vars

\* C5: the delivery of an accepted endpoint-updated notification (either
\* variant) for another blockchain changes none of connection, bound client,
\* account and isConnected.
C5_OtherChainEndpointIgnored ==
  [][(/\ Accepted(notification')
      /\ notification'.detail.name \in UrlUpdatedNames
      /\ notification'.detail.blockchain # SOLANA)
     => UNCHANGED <<connection, secureSolanaClient, publicKey, isConnected>>]_vars

\* C5 witness: such a notification has just been delivered to a connected
\* session whose endpoint is not the one the notification carries.
C5_Witness ==
  /\ Accepted(notification)
  /\ notification.detail.name \in UrlUpdatedNames
  /\ notification.detail.blockchain # SOLANA
  /\ isConnected /\ Truthy(publicKey)
  /\ connection.url # notification.detail.url
  /\ secureSolanaClient.connection.url # notification.detail.url

\* C6 (as claimed): after an accepted "disconnected" notification the session
\* has isConnected false, the default endpoint and no account.
C6_DisconnectedNotificationClears ==
  (Accepted(notification) /\ notification.detail.name = NOTIFICATION_SOLANA_DISCONNECTED)
  => /\ ~isConnected
     /\ connection = DefaultConnection
     /\ publicKey = NoKey

\* C7: when disconnect() resumes after the trusted side's answer, the account
\* is cleared, connection and bound client are on the default endpoint and
\* isConnected is false.
C7_DisconnectClears ==
  [][\A c \in Callers :
       (calls[c].pc = "disconnect" /\ calls'[c].pc = "returned")
       => /\ ~isConnected'
          /\ publicKey' = NoKey
          /\ connection' = DefaultConnection
          /\ secureSolanaClient' = SolanaClient(DefaultConnection)]_vars

\* C7 witness: a disconnect() called on a connected standalone session has
\* just returned, having gone through the trusted side.
C7_Witness ==
  \E c \in Callers :
    /\ calls[c].method = "disconnect" /\ calls[c].pc = "returned"
    /\ calls[c].connectedAtCall /\ calls[c].sent = <<"disconnect">>
    /\ ~isXnft /\ ~isConnected /\ publicKey = NoKey
    /\ notification = NoEvent

\* C8: disconnect() called while isXnft is true returns at once without an
\* error, sends nothing to the trusted side and changes no field.
C8_XnftDisconnectIsNoOp ==
  [][\A c \in Callers :
       (Started(c) /\ calls'[c].method = "disconnect" /\ isXnft)
       => /\ calls'[c].pc = "returned"
          /\ calls'[c].error = "none"
          /\ calls'[c].sent = <<>>
          /\ UNCHANGED fields]_vars

\* C8 witness: disconnect() has returned, with its warning and no request, on
\* an embedded session that is still connected.
C8_Witness ==
  \E c \in Callers :
    /\ calls[c].method = "disconnect" /\ calls[c].pc = "returned"
    /\ calls[c].sent = <<>>
    /\ calls[c].warned = <<"xnft can't be disconnected">>
    /\ isXnft /\ isConnected /\ Truthy(publicKey)

\* C9: after an accepted plugin-connect notification with account k and
\* endpoint u the session is connected, embedded, on account k, with
\* connection and bound client on u, and the one public event, "connect", was
\* emitted with the payload when the getters already returned that state.
C9_PluginConnectSeedsSession ==
  (Accepted(notification) /\ notification.detail.name = PLUGIN_NOTIFICATION_CONNECT)
  => /\ isConnected /\ isXnft
     /\ publicKey = PublicKey(notification.detail.key)
     /\ connection = BackgroundSolanaConnection(notification.detail.url)
     /\ secureSolanaClient = SolanaClient(connection)
     /\ Len(emitted) = 1
     /\ emitted[1].name = "connect"
     /\ emitted[1].detail = notification.detail
     /\ emitted[1].seen = Getters(Session)

\* C9 witness: plugin-connect{X, E1} has just been delivered.
C9_Witness ==
  /\ notification =
       Event(TRUE, CHANNEL_PLUGIN_NOTIFICATION,
             Detail(PLUGIN_NOTIFICATION_CONNECT, SOLANA, "E1", "X"))
  /\ isConnected /\ isXnft
  /\ publicKey = PublicKey("X")
  /\ connection.url = "E1"

\* C10: connect() called while isConnected is true returns at once without an
\* error, sends nothing to the trusted side and changes no field.
C10_ConnectWhenConnectedIsNoOp ==
  [][\A c \in Callers :
       (Started(c) /\ calls'[c].method = "connect" /\ isConnected)
       => /\ calls'[c].pc = "returned"
          /\ calls'[c].error = "none"
          /\ calls'[c].sent = <<>>
          /\ UNCHANGED fields]_vars

\* C10 witness: a connect() on a connected session has returned with its
\* warning and no request.
C10_Witness ==
  \E c \in Callers :
    /\ calls[c].method = "connect" /\ calls[c].pc = "returned"
    /\ calls[c].connectedAtCall /\ calls[c].sent = <<>>
    /\ calls[c].warned = <<"provider already connected">>
    /\ isConnected /\ Truthy(publicKey)

\* The event names the router's switch has a case for: lines 144-175.
RecognizedNames ==
  {NOTIFICATION_SOLANA_CONNECTED, NOTIFICATION_SOLANA_DISCONNECTED,
   NOTIFICATION_CONNECTION_URL_UPDATED, NOTIFICATION_ACTIVE_WALLET_UPDATED,
   PLUGIN_NOTIFICATION_CONNECT, PLUGIN_NOTIFICATION_MOUNT,
   PLUGIN_NOTIFICATION_UPDATE_METADATA, PLUGIN_NOTIFICATION_UNMOUNT,
   PLUGIN_NOTIFICATION_CONNECTION_URL_UPDATED,
   PLUGIN_NOTIFICATION_SOLANA_PUBLIC_KEY_UPDATED}

\* The handlers that return at once for another blockchain: lines 206, 255, 266.
ChainFilteredNames ==
  {NOTIFICATION_CONNECTION_URL_UPDATED, NOTIFICATION_ACTIVE_WALLET_UPDATED,
   PLUGIN_NOTIFICATION_CONNECTION_URL_UPDATED}

\* The endpoint-updated and account-updated notifications.
UpdateNames ==
  UrlUpdatedNames \cup {NOTIFICATION_ACTIVE_WALLET_UPDATED,
                        PLUGIN_NOTIFICATION_SOLANA_PUBLIC_KEY_UPDATED}

\* C11: a delivery raises exactly when the message has a valid origin, one of
\* the two notification channel tags and an event name the router does not
\* know; a message with an invalid origin or another channel tag raises
\* nothing, changes no field and emits nothing.
C11_RouterRaisesOnlyOnUnknownName ==
  [][notification' # NoEvent =>
       LET wellAddressed ==
             /\ notification'.valid
             /\ notification'.type \in {CHANNEL_SOLANA_NOTIFICATION,
                                        CHANNEL_PLUGIN_NOTIFICATION}
       IN /\ (raised' # "none") <=>
               (wellAddressed /\ notification'.detail.name \notin RecognizedNames)
          /\ ~wellAddressed => (emitted' = <<>> /\ UNCHANGED fields)]_vars

\* C11 witness: a connected session has just received an unknown event name
\* on an accepted channel, and the delivery raised.
C11_Witness ==
  /\ notification = Event(TRUE, CHANNEL_PLUGIN_NOTIFICATION, NoData(NOTIFICATION_UNKNOWN))
  /\ raised = "unexpected notification"
  /\ emitted = <<>>
  /\ isConnected

\* C12 (as claimed): openXnft called while isXnft is true returns without an
\* error, sends no request and changes no field. The code throws.
C12_OpenXnftInXnftIsNoOp ==
  [][\A c \in Callers :
       (Started(c) /\ calls'[c].method = "openXnft" /\ isXnft)
       => /\ calls'[c].pc = "returned"
          /\ calls'[c].error = "none"
          /\ calls'[c].sent = <<>>
          /\ UNCHANGED fields]_vars

\* The public event names of the specification's interface list.
PublicEventNames ==
  {"connect", "disconnect", "connectionDidChange", "activeWalletDidChange",
   "mount", "unmount", "metadata"}

\* C13 (as claimed): every public event emitted has one of the seven listed
\* names and carries the payload of the notification that caused it.
C13_EmittedNamesAsListed ==
  \A i \in DOMAIN emitted :
    /\ emitted[i].name \in PublicEventNames
    /\ emitted[i].detail = notification.detail

\* C13 (amended): every public event emitted has one of the seven listed names
\* or the name "publicKeyUpdate", and carries the payload of the notification
\* that caused it.
C13_EmittedNamesWithPublicKeyUpdate ==
  \A i \in DOMAIN emitted :
    /\ emitted[i].name \in PublicEventNames \cup {"publicKeyUpdate"}
    /\ emitted[i].detail = notification.detail

\* C13 witness: a plugin public-key notification for account X has just been
\* re-emitted as "publicKeyUpdate" with its payload.
C13_Witness ==
  /\ Len(emitted) = 1
  /\ emitted[1].name = "publicKeyUpdate"
  /\ emitted[1].detail =
       Detail(PLUGIN_NOTIFICATION_SOLANA_PUBLIC_KEY_UPDATED, SOLANA, Absent, "X")
  /\ notification.detail = emitted[1].detail

\* C14 (as claimed): whenever a guarded operation could be dispatched (an
\* account is bound), the bound client was constructed on the endpoint the
\* connection accessor returns.
C14_ClientBoundToSessionEndpoint ==
  Truthy(publicKey) => secureSolanaClient.connection.url = connection.url

\* C15 (as claimed): the delivery of an endpoint-updated or account-updated
\* notification never changes isConnected, and while the session is
\* disconnected with no connect in progress it changes none of account,
\* connection and bound client.
C15_UpdatesOnlyWhileConnected ==
  [][(Accepted(notification') /\ notification'.detail.name \in UpdateNames)
     => /\ isConnected' = isConnected
        /\ (~isConnected /\ \A c \in DOMAIN calls : calls[c].pc # "connect")
           => UNCHANGED <<publicKey, connection, secureSolanaClient>>]_vars

\* C16 (as claimed): every accepted notification with a recognized name
\* results in exactly one public event, emitted when the getters already
\* return the state the notification leaves behind.
C16_OneEmissionPerNotification ==
  (Accepted(notification) /\ notification.detail.name \in RecognizedNames)
  => /\ Len(emitted) = 1
     /\ emitted[1].seen = Getters(Session)

\* C16 (amended): an accepted notification with a recognized name results in
\* no public event when it is an endpoint-updated or active-wallet-updated
\* notification for another blockchain, and otherwise in exactly one, emitted
\* when the getters already return the state the notification leaves behind.
C16_OneEmissionUnlessOtherChain ==
  (Accepted(notification) /\ notification.detail.name \in RecognizedNames)
  => IF /\ notification.detail.name \in ChainFilteredNames
        /\ notification.detail.blockchain # SOLANA
     THEN emitted = <<>>
     ELSE /\ Len(emitted) = 1
          /\ emitted[1].seen = Getters(Session)

\* C16 witness: a "disconnected" notification has just been delivered to an
\* embedded session, and the one "disconnect" event saw isConnected false.
C16_Witness ==
  /\ Accepted(notification)
  /\ notification.detail.name = NOTIFICATION_SOLANA_DISCONNECTED
  /\ isXnft /\ Truthy(publicKey)
  /\ Len(emitted) = 1
  /\ emitted[1].name = "disconnect"
  /\ ~emitted[1].seen.isConnected
  /\ emitted[1].seen.connection = DefaultConnection

\* The callers whose connect request is waiting for the trusted side's answer.
Connecting == {c \in DOMAIN calls : calls[c].pc = "connect"}

\* C17 (as claimed): when calls made while the session is disconnected
\* interleave at their awaits, at most one connect request is out to the
\* trusted side. The code shares no pending connect between callers.
C17_OneConnectRoundTrip == Cardinality(Connecting) <= 1

\* The step is caller c's own request being answered or failed.
OwnSettlement(c) ==
  /\ notification' = NoEvent
  /\ calls'[c] \in {Settle([calls[c] EXCEPT !.pc = "returned"]),
                    Settle([calls[c] EXCEPT !.pc = "threw",
                                            !.error = "transport failure"])}
  /\ \A d \in DOMAIN calls \ {c} : calls'[d] = calls[d]
  /\ UNCHANGED fields

\* C18: a guarded operation whose request is out to the trusted side keeps
\* the client, account and connection it was issued with, and stays in flight,
\* through every notification and every step of another call; only the answer
\* to its own request ends it.
C18_InFlightKeepsItsBinding ==
  [][\A c \in DOMAIN calls :
       (calls[c].pc = "request" /\ calls[c].method \in Guarded) =>
         (calls'[c] = calls[c] \/ OwnSettlement(c))]_vars

\* A send is in flight on a client and an account the session no longer has,
\* and the other caller's disconnect() has returned meanwhile.
C18_Witness ==
  \E c, d \in DOMAIN calls :
    /\ calls[c].pc = "request" /\ calls[c].method = "send"
    /\ calls[c].client # secureSolanaClient
    /\ calls[c].publicKey # publicKey
    /\ calls[d].method = "disconnect" /\ calls[d].pc = "returned"
    /\ ~isConnected

\* C19: when the notifications carry non-empty accounts, isConnected implies
\* that publicKey is present, whatever the interleaving of notifications,
\* connect(), disconnect() and guarded operations.
C19_ConnectedHasAccount == isConnected => Truthy(publicKey)

\* Connected with an account after a disconnect() has returned, a guarded
\* operation is in flight, and an account notification has just arrived.
C19_Witness ==
  /\ isConnected /\ Truthy(publicKey)
  /\ notification # NoEvent
  /\ notification.detail.name \in {NOTIFICATION_ACTIVE_WALLET_UPDATED,
                                   PLUGIN_NOTIFICATION_SOLANA_PUBLIC_KEY_UPDATED}
  /\ \E c, d \in DOMAIN calls :
       /\ calls[c].method = "disconnect" /\ calls[c].pc = "returned"
       /\ calls[d].method \in Guarded /\ calls[d].pc = "request"

\* C20 (as claimed): a disconnect() that resumes after a plugin-connect has
\* made the session an embedded one leaves it connected with the account,
\* connection and client the plugin-connect gave it. The code tests #isXnft
\* only before its await.
C20_ResumedDisconnectSparesPlugin ==
  [][\A c \in DOMAIN calls :
       (calls[c].pc = "disconnect" /\ calls'[c].pc = "returned"
        /\ isXnft /\ isConnected) =>
         (isConnected' /\ UNCHANGED <<publicKey, connection, secureSolanaClient>>)]_vars

\* How many requests for its own operation a call has sent.
RequestsSent(call) ==
  Cardinality({i \in DOMAIN call.sent : call.sent[i] = call.method})

Pending(c) ==
  calls[c].method \in Guarded /\ calls[c].pc \in {"connect", "guard", "request"}

\* C21: when the trusted side answers every request, a guarded operation that
\* is waiting for it eventually returns or fails, whatever notifications
\* arrive meanwhile, and no guarded operation ever has more than one connect
\* request or more than one request of its own behind it.
C21_GuardedCallSettles ==
  /\ [](\A c \in Callers :
          calls[c].method \in Guarded =>
            ConnectsSent(calls[c]) <= 1 /\ RequestsSent(calls[c]) <= 1)
  /\ \A c \in Callers : Pending(c) ~> (calls[c].pc \in {"returned", "threw"})

\* A guarded operation has returned after one connect and one request of its
\* own, and a "disconnected" notification arrived while it was suspended.
C21_Witness ==
  \E c \in Callers :
    /\ calls[c].method \in Guarded /\ calls[c].pc = "returned"
    /\ calls[c].sent = <<"connect", calls[c].method>>
    /\ ~isConnected

====
